---- MODULE Spec2Model ----
(***************************************************************************)
(* Quotation manager: the Quotation model (quotation/models.py), the       *)
(* QuotationViewSet actions (quotation/views.py) and the base-field part   *)
(* of QuotationSerializer.update (quotation/serializers.py), run by        *)
(* concurrent request workers against one database table.                  *)
(*                                                                         *)
(* Spec          the requests from an empty table, within one fiscal year  *)
(* SpecYears     the same, across the turn of the fiscal year              *)
(* SpecImported  the requests on a table that holds a closed quotation     *)
(*                                                                         *)
(* A quotation_number "Q-<fiscal year>-<n>" is the pair <<f, n>>: f is the *)
(* fiscal-year label (the prefix "Q-<label>"), n the integer that          *)
(* int(number.split('-')[-1]) parses back.  <<>> is None / "".             *)
(* Fields that no modelled code path reads (lead_id, version, vat, notes,  *)
(* quotation_to, address, phone, unit, custom_unit, timestamps) are left   *)
(* out of the rows.                                                        *)
(***************************************************************************)
EXTENDS Integers, Sequences, FiniteSets, TLC

\* Bounds of the model: the requests the server accepts in one run, and
\* the fiscal years the run spans.
MaxRequests == 3
MaxFiscalYears == 2

\* The request workers (threads / processes of the web server).
Procs == {"w1", "w2"}

\* models.py:13-18
STATUS_CHOICES == {"draft", "pending", "approved", "rejected"}

\* Primary keys and item ids a request can name.
Ids == 1..MaxRequests
ItemIds == 1..MaxRequests

------------------------------------------------------------------------------
\* Item names.  Python's str.strip(), str.title() and the two name regexes
\* over the names the requests use: "", "pipe", " pipe", "Pipe", "a@b".

\* models.py:121, views.py:58: name.strip()
Strip(name) == IF name = " pipe" THEN "pipe" ELSE name

\* models.py:162: name.title()
Title(name) ==
    CASE name = "pipe" -> "Pipe"
      [] name = "a@b" -> "A@B"
      [] OTHER -> name

\* views.py:9   ^[A-Za-z0-9\s\-,.()]+$
ViewNameOk(name) == name \in {"pipe", " pipe", "Pipe"}

\* models.py:63  ^[A-Za-z0-9\s\-\.,'()]+$
ModelNameOk(name) == name \in {"pipe", " pipe", "Pipe"}

\* dict.get(key, default) on a request payload
Get(data, key, default) == IF key \in DOMAIN data THEN data[key] ELSE default

\* The field rules of an item on the fields a payload carries: the name's
\* character set, qty, rate and discount_value >= 0, the discount type.
FieldsOk(data) ==
    /\ "name" \in DOMAIN data => ViewNameOk(Strip(data.name))
    /\ "qty" \in DOMAIN data => data.qty >= 0
    /\ "rate" \in DOMAIN data => data.rate >= 0
    /\ "discount_type" \in DOMAIN data => data.discount_type \in {"percent", "amount"}
    /\ "discount_value" \in DOMAIN data => data.discount_value >= 0

\* Request payloads of add_item / update_item (request.data).
ItemInputs ==
    { [name |-> "pipe", qty |-> 1, rate |-> 1, discount_type |-> "percent", discount_value |-> 0],
      [name |-> " pipe", qty |-> 1, rate |-> 1, discount_type |-> "percent", discount_value |-> 1],
      [name |-> "pipe", qty |-> 0 - 1],
      [name |-> "pipe", discount_type |-> "flat"],
      [name |-> "pipe", discount_value |-> 0 - 1],
      [name |-> "a@b"],
      [discount_value |-> 1],
      [discount_value |-> 0] }

\* An item of the JSON list (views.py:73-82).
MkItem(id, name, qty, rate, dtype, dvalue) ==
    [id |-> id, name |-> name, qty |-> qty, rate |-> rate,
     discount_type |-> dtype, discount_value |-> dvalue]

\* Item lists given to a new Quotation(...): the field default (models.py:58)
\* and one-item lists.
CreateItems ==
    { <<>>,
      << MkItem(1, "pipe", 1, 1, "percent", 0) >>,
      << MkItem(1, "pipe", 1, 1, "percent", 1) >>,
      << MkItem(1, "pipe", 1, 0 - 1, "percent", 0) >> }

SubtotalDiscounts == {0 - 1, 0, 1}

\* The statuses a new quotation is created with: the default (models.py:28)
\* and 'draft'.
CreateStatuses == {"pending", "draft"}

\* validated_data of QuotationSerializer.update (a PATCH): nothing, the
\* status or the subtotal_discount, each already validated by its serializer
\* field (a choice of STATUS_CHOICES, a decimal >= 0).
UpdateInputs ==
    { <<>> }
    \cup { [status |-> s] : s \in STATUS_CHOICES }
    \cup { [subtotal_discount |-> d] : d \in {0, 1} }
    \cup { [items |-> << [name |-> "pipe", qty |-> 0 - 1, rate |-> 1,
                          discount_type |-> "percent", discount_value |-> 0] >>] }

\* Nested items of a PUT / PATCH: a new item, and an item that carries the
\* id of a stored one.
NewItem ==
    [name |-> "pipe", qty |-> 1, rate |-> 1, discount_type |-> "percent",
     discount_value |-> 0]

KnownItem ==
    [id |-> 1, name |-> "pipe", qty |-> 2, rate |-> 1, discount_type |-> "percent",
     discount_value |-> 0]

\* Request data of QuotationSerializer.update with nested items.
NestedInputs == { [items |-> << KnownItem >>], [items |-> << NewItem, KnownItem >>] }

------------------------------------------------------------------------------
VARIABLES
    store,      \* the quotation table: id -> row
    nextId,     \* the AutoField sequence (models.py:23)
    fy,         \* the fiscal year nep_date.today() falls in
    pc,         \* per worker: where it is in Quotation.save()
    req,        \* per worker: the request it handles
    inst,       \* per worker: the in-memory Quotation instance
    prefix,     \* per worker: generate_quotation_number's prefix
    new_num,    \* per worker: generate_quotation_number's new_num
    locked,     \* per worker: the row it holds FOR UPDATE (0: none)
    last,       \* the response most recently returned
    issued,     \* the numbers given to newly inserted quotations, in order
    started,    \* the requests accepted so far
    qitems,     \* the QuotationItem table: item id -> row
    nextItemId, \* the id sequence of the QuotationItem table
    calc        \* the most recent call of a calculation method

vars == <<store, nextId, fy, pc, req, inst, prefix, new_num, locked, last, issued, started,
          qitems, nextItemId, calc>>

NoInst == [id |-> 0, quotation_number |-> <<>>, status |-> "pending",
           subtotal_discount |-> 0, items |-> <<>>]

NoReq == [op |-> "none", pk |-> 0, was |-> "none"]

NoResponse == [op |-> "none", pk |-> 0, was |-> "none", code |-> 0, exc |-> "",
               changed |-> FALSE, bad |-> FALSE, sent |-> <<>>]

\* No calculation method has been called.
NoCalc == [fn |-> "none", arg |-> <<>>, value |-> 0]

\* The row of an instance (every column but the primary key).
RowOf(q) == [quotation_number |-> q.quotation_number, status |-> q.status,
             subtotal_discount |-> q.subtotal_discount, items |-> q.items]

\* get_object(): the instance loaded from row pk.
Load(pk) == [id |-> pk, quotation_number |-> store[pk].quotation_number,
             status |-> store[pk].status,
             subtotal_discount |-> store[pk].subtotal_discount,
             items |-> store[pk].items]

------------------------------------------------------------------------------
\* Model validation: Quotation.full_clean() = clean_fields(), clean(),
\* validate_unique().

\* models.py:28: the status must be one of the field's choices.
StatusValid(status) == status \in STATUS_CHOICES

\* models.py:30-33: MinValueValidator(0.00).
SubtotalDiscountValid(sd) == sd >= 0

\* models.py:58: the JSONField is declared without blank=True, so
\* Field.validate() rejects every empty value, the empty list included.
ItemsFieldValid(items) == items # <<>>

\* models.py:116-119
RequiredKeys == {"name", "qty", "rate", "discount_type", "discount_value"}

\* clean_items without the check of models.py:142.
NoDiscountConflict(sd, dvalue) == FALSE

\* models.py:142: document-level discount together with an item discount.
DiscountConflict(sd, dvalue) == sd > 0 /\ dvalue > 0

\* clean_items checking the keys and the name only.
ItemCleanNameOnly(data, sd) ==
    /\ RequiredKeys \subseteq DOMAIN data
    /\ ModelNameOk(Strip(data.name))

\* models.py:115-143: one iteration of clean_items; TRUE when nothing is raised.
ItemClean(data, sd) ==
    /\ RequiredKeys \subseteq DOMAIN data
    /\ ModelNameOk(Strip(data.name))
    /\ ~(data.qty < 0 \/ data.rate < 0)
    /\ data.discount_type \in {"percent", "amount"}
    /\ ~(data.discount_value < 0)
    /\ ~DiscountConflict(sd, data.discount_value)

\* clean() without its call of clean_items.
NoCleanItems(q) == TRUE

\* models.py:113-143
clean_items(q) == \A i \in 1..Len(q.items) : ItemClean(q.items[i], q.subtotal_discount)

\* Model.validate_unique() for the unique quotation_number (models.py:24):
\* skipped for NULL, otherwise no other row may hold the value.
validate_unique(q) ==
    \/ q.quotation_number = <<>>
    \/ \A id \in DOMAIN store :
          id # q.id => store[id].quotation_number # q.quotation_number

\* models.py:153: self.full_clean(); TRUE when no ValidationError is raised.
full_clean(q) ==
    /\ StatusValid(q.status)
    /\ SubtotalDiscountValid(q.subtotal_discount)
    /\ ItemsFieldValid(q.items)
    /\ clean_items(q)
    /\ validate_unique(q)

\* save() generating a number on every call.
AlwaysNeedsNumber(q) == TRUE

\* models.py:154: if not self.quotation_number
NeedsNumber(q) == q.quotation_number = <<>>

\* models.py:160-162: item["name"] = item["name"].strip().title()
NormalizeNames(items) ==
    [i \in 1..Len(items) |-> [items[i] EXCEPT !.name = Title(Strip(@))]]

\* quotation_number without unique=True.
NoUniqueIndex(id, number) == FALSE

\* The unique index on quotation_number (models.py:24) as the database
\* enforces it on INSERT and UPDATE of row id: NULLs never collide.
UniqueViolation(id, number) ==
    /\ number # <<>>
    /\ \E other \in DOMAIN store :
          other # id /\ store[other].quotation_number = number

\* A row lock taken by select_for_update() (models.py:93) blocks every
\* other transaction that locks or writes the row.
LockedByOther(p, id) == \E q \in Procs \ {p} : locked[q] = id

\* The status code a view returns when its save() went through.
SuccessCode(o) == IF o \in {"create", "add_item"} THEN 201 ELSE 200

ErrorCodes == {400, 404, 500}

\* A response: the request (its view, its pk, the status get_object() read),
\* the HTTP status code, the exception behind a 404 or 500, whether the
\* step that returned it changed the table, whether the request carried an
\* item that breaks the field rules, and the nested items it sent.
Response(r, code, exc, changed) ==
    [op |-> r.op, pk |-> r.pk, was |-> r.was, code |-> code, exc |-> exc,
     changed |-> changed, bad |-> Get(r, "bad", FALSE), sent |-> Get(r, "sent", <<>>)]

------------------------------------------------------------------------------
Init ==
    /\ store = <<>>
    /\ nextId = 1
    /\ fy = 1
    /\ pc = [p \in Procs |-> "idle"]
    /\ req = [p \in Procs |-> NoReq]
    /\ inst = [p \in Procs |-> NoInst]
    /\ prefix = [p \in Procs |-> 0]
    /\ new_num = [p \in Procs |-> 0]
    /\ locked = [p \in Procs |-> 0]
    /\ last = NoResponse
    /\ issued = <<>>
    /\ started = 0
    /\ qitems = <<>>
    /\ nextItemId = 1
    /\ calc = NoCalc

\* An idle worker takes the next request.
Accept(p) ==
    /\ pc[p] = "idle"
    /\ started < MaxRequests
    /\ started' = started + 1
    /\ UNCHANGED calc

\* A view returns without a database write.
Reply(p, r, code, exc) ==
    /\ last' = Response(r, code, exc, FALSE)
    /\ UNCHANGED <<store, nextId, fy, pc, req, inst, prefix, new_num, locked, issued, qitems, nextItemId>>

\* models.py:152-155 and 89-90: a view calls save() on the instance q.
\* full_clean() raises, or save() goes on to generate a number (the prefix
\* is computed before the transaction is opened) or to write the row.
\* validate_unique() reads the table as of the view's get_object().
CallSave(p, r, q) ==
    IF ~full_clean(q)
      THEN Reply(p, r, 500, "ValidationError")
      ELSE /\ pc' = [pc EXCEPT ![p] = IF NeedsNumber(q) THEN "gen_read" ELSE "write"]
           /\ prefix' = [prefix EXCEPT ![p] = IF NeedsNumber(q) THEN fy ELSE 0]
           /\ req' = [req EXCEPT ![p] = r]
           /\ inst' = [inst EXCEPT ![p] = q]
           /\ UNCHANGED <<store, nextId, fy, new_num, locked, last, issued, qitems, nextItemId>>

\* The worker is back to waiting for a request.
Finish(p) ==
    /\ pc' = [pc EXCEPT ![p] = "idle"]
    /\ req' = [req EXCEPT ![p] = NoReq]
    /\ inst' = [inst EXCEPT ![p] = NoInst]
    /\ prefix' = [prefix EXCEPT ![p] = 0]
    /\ new_num' = [new_num EXCEPT ![p] = 0]

\* A new Quotation(status=..., subtotal_discount=..., items=...) is saved
\* (serializers.py:88 Quotation.objects.create, which leaves items at its
\* default, or any other caller of save() on a new instance).
create(p, status, sd, items) ==
    /\ Accept(p)
    /\ CallSave(p, [op |-> "create", pk |-> 0, was |-> "none"],
                [id |-> 0, quotation_number |-> <<>>, status |-> status,
                 subtotal_discount |-> sd, items |-> items])

\* approve without its guard on 'approved', and without its guard on 'closed'.
ApproveRefusedClosedOnly(status) == status = "closed"

ApproveRefusedApprovedOnly(status) == status = "approved"

\* views.py:22: the statuses approve refuses.
ApproveRefused(status) == status \in {"approved", "closed"}

\* views.py:39: the status close refuses.
CloseRefused(status) == status = "draft"

\* views.py:19-31, with the full_clean() of the save() it calls;
\* get_object() answers 404 for a missing row.
approve(p, pk) ==
    /\ Accept(p)
    /\ IF pk \notin DOMAIN store
         THEN Reply(p, [op |-> "approve", pk |-> pk, was |-> "none"], 404, "Http404")
         ELSE LET r == [op |-> "approve", pk |-> pk, was |-> store[pk].status]
              IN  IF ApproveRefused(store[pk].status)
                    THEN Reply(p, r, 400, "")
                    ELSE CallSave(p, r, [Load(pk) EXCEPT !.status = "approved"])

\* views.py:36-48, with the full_clean() of the save() it calls.
close(p, pk) ==
    /\ Accept(p)
    /\ IF pk \notin DOMAIN store
         THEN Reply(p, [op |-> "close", pk |-> pk, was |-> "none"], 404, "Http404")
         ELSE LET r == [op |-> "close", pk |-> pk, was |-> store[pk].status]
              IN  IF CloseRefused(store[pk].status)
                    THEN Reply(p, r, 400, "")
                    ELSE CallSave(p, r, [Load(pk) EXCEPT !.status = "closed"])

\* views.py:74: the id given to an added item.
NewItemId(items) == IF items # <<>> THEN Len(items) + 1 ELSE 1

\* views.py:53-91, with the full_clean() of the save() it calls.
add_item(p, pk, data) ==
    /\ Accept(p)
    /\ IF pk \notin DOMAIN store
         THEN Reply(p, [op |-> "add_item", pk |-> pk, was |-> "none"], 404, "Http404")
         ELSE LET name == Strip(Get(data, "name", ""))
                  item == MkItem(NewItemId(store[pk].items), name,
                                 Get(data, "qty", 0), Get(data, "rate", 0),
                                 Get(data, "discount_type", "percent"),
                                 Get(data, "discount_value", 0))
                  r == [op |-> "add_item", pk |-> pk, was |-> store[pk].status,
                        bad |-> ~FieldsOk(item)]
              IN  IF ~ViewNameOk(name)
                    THEN Reply(p, r, 400, "")
                    ELSE CallSave(p, r, [Load(pk) EXCEPT !.items = Append(@, item)])

\* views.py:101: the items whose id differs from item_id.
WithoutItem(items, item_id) == SelectSeq(items, LAMBDA i : i.id # item_id)

\* views.py:96-109, with the full_clean() of the save() it calls.
remove_item(p, pk, item_id) ==
    /\ Accept(p)
    /\ IF pk \notin DOMAIN store
         THEN Reply(p, [op |-> "remove_item", pk |-> pk, was |-> "none"], 404, "Http404")
         ELSE LET r == [op |-> "remove_item", pk |-> pk, was |-> store[pk].status]
                  new_items == WithoutItem(store[pk].items, item_id)
              IN  IF Len(store[pk].items) = Len(new_items)
                    THEN Reply(p, r, 404, "")
                    ELSE CallSave(p, r, [Load(pk) EXCEPT !.items = new_items])

\* views.py:122-135: the item overwritten from the payload; the name is
\* stripped but every other value is taken as sent.
UpdatedItem(item, data) ==
    [item EXCEPT
       !.name = Strip(Get(data, "name", item.name)),
       !.qty = Get(data, "qty", item.qty),
       !.rate = Get(data, "rate", item.rate),
       !.discount_type = Get(data, "discount_type", item.discount_type),
       !.discount_value = Get(data, "discount_value", item.discount_value)]

\* views.py:120-121: the first item with the id, 0 when there is none.
FirstWithId(items, item_id) ==
    IF \E i \in 1..Len(items) : items[i].id = item_id
      THEN CHOOSE i \in 1..Len(items) :
              /\ items[i].id = item_id
              /\ \A j \in 1..(i - 1) : items[j].id # item_id
      ELSE 0

\* views.py:114-140, with the full_clean() of the save() it calls.
update_item(p, pk, item_id, data) ==
    /\ Accept(p)
    /\ IF pk \notin DOMAIN store
         THEN Reply(p, [op |-> "update_item", pk |-> pk, was |-> "none"], 404, "Http404")
         ELSE LET r == [op |-> "update_item", pk |-> pk, was |-> store[pk].status,
                        bad |-> ~FieldsOk(data)]
                  items == store[pk].items
                  i == FirstWithId(items, item_id)
              IN  IF i = 0
                    THEN Reply(p, r, 404, "")
                    ELSE IF ~ViewNameOk(Strip(Get(data, "name", items[i].name)))
                           THEN Reply(p, r, 400, "")
                           ELSE CallSave(p, r, [Load(pk) EXCEPT
                                    !.items = [items EXCEPT ![i] = UpdatedItem(@, data)]])

\* serializers.py:108-109: setattr(instance, attr, value) for the base fields.
SetAttrs(q, data) ==
    [q EXCEPT !.status = Get(data, "status", @),
              !.subtotal_discount = Get(data, "subtotal_discount", @)]

\* serializers.py:25: 'id' is a read-only field of QuotationItemSerializer,
\* so validation leaves it out of the item's validated data.
to_internal_value(item) == [k \in DOMAIN item \ {"id"} |-> item[k]]

\* QuotationItemSerializer(many=True).is_valid() on the nested items: every
\* field is required and meets the field rules of the item.
ItemsValid(items) ==
    \A i \in 1..Len(items) : RequiredKeys \subseteq DOMAIN items[i] /\ FieldsOk(items[i])

\* ModelViewSet.update / partial_update (views.py:12-14) with
\* QuotationSerializer.update (serializers.py:103-110): the nested items are
\* validated (400), the base fields are set and the instance is saved, with
\* the full_clean() of that save().  items_data is kept for the loop of
\* serializers.py:113-125; a request without "items" has items_data None.
update(p, pk, data) ==
    /\ Accept(p)
    /\ IF pk \notin DOMAIN store
         THEN Reply(p, [op |-> "update", pk |-> pk, was |-> "none"], 404, "Http404")
         ELSE IF "items" \notin DOMAIN data
           THEN CallSave(p, [op |-> "update", pk |-> pk, was |-> store[pk].status],
                         SetAttrs(Load(pk), data))
           ELSE LET r == [op |-> "update", pk |-> pk, was |-> store[pk].status,
                          bad |-> ~ItemsValid(data.items), sent |-> data.items,
                          items_data |-> [i \in 1..Len(data.items) |->
                                             to_internal_value(data.items[i])],
                          existing_items |-> {}]
                IN  IF ~ItemsValid(data.items)
                      THEN Reply(p, r, 400, "")
                      ELSE CallSave(p, r, SetAttrs(Load(pk), data))

\* serializers.py:114: instance.items.all(), the ids of the item rows of
\* quotation pk.
ItemsOf(rows, pk) == { i \in DOMAIN rows : rows[i].quotation = pk }

\* ModelViewSet.destroy on the viewset's queryset (views.py:12-14):
\* get_object() and instance.delete(), which takes the quotation's item
\* rows with it.
destroy(p, pk) ==
    /\ Accept(p)
    /\ IF pk \notin DOMAIN store
         THEN Reply(p, [op |-> "destroy", pk |-> pk, was |-> "none"], 404, "Http404")
         ELSE /\ ~LockedByOther(p, pk)
              /\ store' = [id \in DOMAIN store \ {pk} |-> store[id]]
              /\ qitems' = [i \in DOMAIN qitems \ ItemsOf(qitems, pk) |-> qitems[i]]
              /\ last' = Response([op |-> "destroy", pk |-> pk, was |-> store[pk].status],
                                  204, "", TRUE)
              /\ UNCHANGED <<nextId, fy, pc, req, inst, prefix, new_num, locked, issued,
                             nextItemId>>

------------------------------------------------------------------------------
\* generate_quotation_number (models.py:88-108) and the rest of save()
\* (models.py:155-164), one action per database round trip.

\* models.py:93-94: the rows whose number starts with the prefix.
WithPrefix(f) ==
    {id \in DOMAIN store :
        /\ store[id].quotation_number # <<>>
        /\ store[id].quotation_number[1] = f}

\* models.py:95: order_by('-id').first()
LastRow(rows) == CHOOSE id \in rows : \A other \in rows : other <= id

\* models.py:100: int(last_q.quotation_number.split('-')[-1])
ParseNum(number) == number[2]

\* models.py:108: f"{prefix}-{new_num}"
FormatNumber(f, n) == <<f, n>>

\* models.py:92-104: SELECT ... ORDER BY id DESC LIMIT 1 FOR UPDATE inside
\* the atomic block, and new_num = last_num + 1.  The statement waits while
\* another transaction holds the row.
GenRead(p) ==
    /\ pc[p] = "gen_read"
    /\ LET rows == WithPrefix(prefix[p])
       IN  IF rows = {}
             THEN /\ new_num' = [new_num EXCEPT ![p] = 0 + 1]
                  /\ UNCHANGED locked
             ELSE /\ ~LockedByOther(p, LastRow(rows))
                  /\ locked' = [locked EXCEPT ![p] = LastRow(rows)]
                  /\ new_num' = [new_num EXCEPT ![p] =
                                   ParseNum(store[LastRow(rows)].quotation_number) + 1]
    /\ pc' = [pc EXCEPT ![p] = "gen_check"]
    /\ UNCHANGED <<store, nextId, fy, req, inst, prefix, last, issued, started, qitems, nextItemId, calc>>

\* models.py:105: a row with exactly this number exists.
NumberExists(number) == \E id \in DOMAIN store : store[id].quotation_number = number

\* The atomic block is left holding its row lock.
KeepLock(p) == locked

\* models.py:92, 108: leaving the atomic block commits the transaction,
\* which releases the row lock.
ReleaseLock(p) == [locked EXCEPT ![p] = 0]

\* models.py:105-108: one test of the while loop; when the number is free
\* the atomic block is left (the row lock is released) and the number is
\* returned to save(), which assigns it (models.py:155).
GenCheck(p) ==
    /\ pc[p] = "gen_check"
    /\ IF NumberExists(FormatNumber(prefix[p], new_num[p]))
         THEN /\ new_num' = [new_num EXCEPT ![p] = @ + 1]
              /\ UNCHANGED <<pc, inst, locked>>
         ELSE /\ inst' = [inst EXCEPT ![p].quotation_number =
                              FormatNumber(prefix[p], new_num[p])]
              /\ locked' = ReleaseLock(p)
              /\ pc' = [pc EXCEPT ![p] = "write"]
              /\ UNCHANGED new_num
    /\ UNCHANGED <<store, nextId, fy, req, prefix, last, issued, started, qitems, nextItemId, calc>>

\* serializers.py:113: items_data is not None.
HasItems(r) == "items_data" \in DOMAIN r

\* models.py:156-164: the names are normalised and super().save() writes
\* the whole row: INSERT for a new instance, UPDATE by primary key for a
\* loaded one (INSERT again when the row is gone).  The unique index
\* rejects the statement with an IntegrityError.  The view then returns,
\* or QuotationSerializer.update goes on to its items (serializers.py:113).
Write(p) ==
    /\ pc[p] = "write"
    /\ LET q == [inst[p] EXCEPT !.items = NormalizeNames(@)]
           rejected == UniqueViolation(q.id, q.quotation_number)
           more == ~rejected /\ HasItems(req[p])
       IN  /\ q.id \in DOMAIN store => ~LockedByOther(p, q.id)
           /\ IF rejected
                THEN /\ last' = Response(req[p], 500, "IntegrityError", FALSE)
                     /\ UNCHANGED <<store, nextId, issued>>
                ELSE IF q.id = 0
                       THEN /\ store' = [id \in DOMAIN store \cup {nextId} |->
                                           IF id = nextId THEN RowOf(q) ELSE store[id]]
                            /\ nextId' = nextId + 1
                            /\ issued' = Append(issued, q.quotation_number)
                            /\ last' = Response(req[p], SuccessCode(req[p].op), "", TRUE)
                       ELSE /\ store' = [id \in DOMAIN store \cup {q.id} |->
                                           IF id = q.id THEN RowOf(q) ELSE store[id]]
                            /\ last' = IF more
                                         THEN last
                                         ELSE Response(req[p], SuccessCode(req[p].op), "",
                                                       store' # store)
                            /\ UNCHANGED <<nextId, issued>>
           /\ IF more
                THEN /\ pc' = [pc EXCEPT ![p] = "read_items"]
                     /\ UNCHANGED <<req, inst, prefix, new_num>>
                ELSE Finish(p)
    /\ UNCHANGED <<fy, locked, started, qitems, nextItemId, calc>>

\* serializers.py:114: existing_items = {item.id: item for item in
\* instance.items.all()}; an empty items_data ends the request here.
ReadItems(p) ==
    /\ pc[p] = "read_items"
    /\ IF req[p].items_data = <<>>
         THEN /\ last' = Response(req[p], 200, "", FALSE)
              /\ Finish(p)
         ELSE /\ req' = [req EXCEPT ![p].existing_items = ItemsOf(qitems, req[p].pk)]
              /\ pc' = [pc EXCEPT ![p] = "update_items"]
              /\ UNCHANGED <<last, inst, prefix, new_num>>
    /\ UNCHANGED <<store, nextId, fy, locked, issued, started, qitems, nextItemId, calc>>

\* serializers.py:120-121: setattr(item, attr, value) for the item's data.
Overwrite(row, item_data) ==
    [k \in DOMAIN row |-> IF k \in DOMAIN item_data THEN item_data[k] ELSE row[k]]

\* serializers.py:125: the row QuotationItem.objects.create(quotation=instance,
\* **item_data) inserts.
NewRow(pk, item_data) ==
    [quotation |-> pk, name |-> item_data.name, qty |-> item_data.qty,
     rate |-> item_data.rate, discount_type |-> item_data.discount_type,
     discount_value |-> item_data.discount_value]

\* serializers.py:116-125: one iteration of the loop on the item table rows
\* with the id sequence at nid; the table and the sequence after it.
ApplyItem(rows, nid, pk, existing_items, item_data) ==
    LET item_id == Get(item_data, "id", 0)
    IN  IF item_id # 0 /\ item_id \in existing_items
          THEN [rows |-> [i \in DOMAIN rows \cup {item_id} |->
                            IF i = item_id
                              THEN IF i \in DOMAIN rows
                                     THEN Overwrite(rows[i], item_data)
                                     ELSE NewRow(pk, item_data)
                              ELSE rows[i]],
                nid |-> nid]
          ELSE [rows |-> [i \in DOMAIN rows \cup {nid} |->
                            IF i = nid THEN NewRow(pk, item_data) ELSE rows[i]],
                nid |-> nid + 1]

\* serializers.py:115-125 on all of items_data, from the items the
\* quotation has.
RECURSIVE ApplyItems(_, _, _, _, _)
ApplyItems(rows, nid, pk, existing_items, items_data) ==
    IF items_data = <<>>
      THEN [rows |-> rows, nid |-> nid]
      ELSE LET one == ApplyItem(rows, nid, pk, existing_items, Head(items_data))
           IN  ApplyItems(one.rows, one.nid, pk, existing_items, Tail(items_data))

\* serializers.py:115-125 and 136: one iteration of the loop, a statement of
\* its own on the item table (a foreign-key error when the quotation is
\* gone); after the last one the view returns.
UpdateItem(p) ==
    /\ pc[p] = "update_items"
    /\ IF req[p].pk \notin DOMAIN store
         THEN /\ last' = Response(req[p], 500, "IntegrityError", FALSE)
              /\ Finish(p)
              /\ UNCHANGED <<qitems, nextItemId>>
         ELSE LET one == ApplyItem(qitems, nextItemId, req[p].pk,
                                   req[p].existing_items, Head(req[p].items_data))
              IN  /\ qitems' = one.rows
                  /\ nextItemId' = one.nid
                  /\ IF Tail(req[p].items_data) = <<>>
                       THEN /\ last' = Response(req[p], 200, "", TRUE)
                            /\ Finish(p)
                       ELSE /\ req' = [req EXCEPT ![p].items_data = Tail(@)]
                            /\ UNCHANGED <<last, pc, inst, prefix, new_num>>
    /\ UNCHANGED <<store, nextId, fy, locked, issued, started, calc>>

\* nep_date.today() passes into the next fiscal year (models.py:70-79).
NewFiscalYear ==
    /\ fy < MaxFiscalYears
    /\ fy' = fy + 1
    /\ UNCHANGED <<store, nextId, pc, req, inst, prefix, new_num, locked, last, issued, started, qitems, nextItemId, calc>>

\* A worker creates a quotation, or goes on with the number generation of
\* the creation it is in.
Creations ==
    \E p \in Procs :
          \/ \E status \in CreateStatuses, sd \in SubtotalDiscounts, items \in CreateItems :
                create(p, status, sd, items)
          \/ GenRead(p)
          \/ GenCheck(p)

\* A worker takes a request on an existing quotation, or writes the row of
\* the save() it is in.
RowRequests ==
    \E p \in Procs :
          \/ \E pk \in Ids : approve(p, pk)
          \/ \E pk \in Ids : close(p, pk)
          \/ \E pk \in Ids, data \in ItemInputs : add_item(p, pk, data)
          \/ \E pk \in Ids, item_id \in ItemIds : remove_item(p, pk, item_id)
          \/ \E pk \in Ids, item_id \in ItemIds, data \in ItemInputs :
                update_item(p, pk, item_id, data)
          \/ \E pk \in Ids, data \in UpdateInputs : update(p, pk, data)
          \/ \E pk \in Ids : destroy(p, pk)
          \/ Write(p)

\* One fiscal year.
Next == Creations \/ RowRequests

Spec == Init /\ [][Next]_vars

\* The same, across the turn of the fiscal year.
NextYears == Creations \/ RowRequests \/ NewFiscalYear

SpecYears == Init /\ [][NextYears]_vars

\* The table as another writer left it: the status column is a varchar
\* without a database constraint, and views.py:45 (like QuerySet.update(),
\* a fixture or a release with other choices) names the value 'closed'.
\* One closed row, its number issued in the current fiscal year.
InitImported ==
    /\ store = [id \in {1} |->
                  [quotation_number |-> FormatNumber(1, 1), status |-> "closed",
                   subtotal_discount |-> 0,
                   items |-> << MkItem(1, "Pipe", 1, 1, "percent", 0) >>]]
    /\ nextId = 2
    /\ fy = 1
    /\ pc = [p \in Procs |-> "idle"]
    /\ req = [p \in Procs |-> NoReq]
    /\ inst = [p \in Procs |-> NoInst]
    /\ prefix = [p \in Procs |-> 0]
    /\ new_num = [p \in Procs |-> 0]
    /\ locked = [p \in Procs |-> 0]
    /\ last = NoResponse
    /\ issued = << FormatNumber(1, 1) >>
    /\ started = 0
    /\ qitems = <<>>
    /\ nextItemId = 1
    /\ calc = NoCalc

\* The requests on the imported row.
SpecImported == InitImported /\ [][RowRequests]_vars

\* A worker takes a request that changes the items of a quotation, or goes
\* on with the one it is in.
ItemRequests ==
    \E p \in Procs :
          \/ \E pk \in Ids, data \in ItemInputs : add_item(p, pk, data)
          \/ \E pk \in Ids, item_id \in ItemIds, data \in ItemInputs :
                update_item(p, pk, item_id, data)
          \/ \E pk \in Ids, data \in UpdateInputs \cup NestedInputs : update(p, pk, data)
          \/ Write(p)
          \/ ReadItems(p)
          \/ UpdateItem(p)

\* A stored pending quotation with one item and no item rows.
InitItems ==
    /\ store = [id \in {1} |->
                  [quotation_number |-> FormatNumber(1, 1), status |-> "pending",
                   subtotal_discount |-> 0,
                   items |-> << MkItem(1, "Pipe", 1, 1, "percent", 0) >>]]
    /\ nextId = 2
    /\ fy = 1
    /\ pc = [p \in Procs |-> "idle"]
    /\ req = [p \in Procs |-> NoReq]
    /\ inst = [p \in Procs |-> NoInst]
    /\ prefix = [p \in Procs |-> 0]
    /\ new_num = [p \in Procs |-> 0]
    /\ locked = [p \in Procs |-> 0]
    /\ last = NoResponse
    /\ issued = << FormatNumber(1, 1) >>
    /\ started = 0
    /\ qitems = <<>>
    /\ nextItemId = 1
    /\ calc = NoCalc

\* The item requests on a stored quotation, nested item updates included.
SpecItems == InitItems /\ [][ItemRequests]_vars

\* A worker adds, removes or updates an item of the JSON list, or writes
\* the row of the save() it is in.
ItemListRequests ==
    \E p \in Procs :
          \/ \E pk \in Ids, data \in ItemInputs : add_item(p, pk, data)
          \/ \E pk \in Ids, item_id \in ItemIds : remove_item(p, pk, item_id)
          \/ \E pk \in Ids, item_id \in ItemIds, data \in ItemInputs :
                update_item(p, pk, item_id, data)
          \/ Write(p)

\* The requests on the item list of a stored quotation.
SpecItemList == InitItems /\ [][ItemListRequests]_vars

\* A worker adds an item to the JSON list, or writes the row of the save()
\* it is in.
AddItemRequests ==
    \E p \in Procs :
          \/ \E pk \in Ids, data \in ItemInputs : add_item(p, pk, data)
          \/ Write(p)

\* add_item requests alone on a stored quotation.
SpecAddItem == InitItems /\ [][AddItemRequests]_vars

\* The requests that issue and free numbers: creations, their inserts and
\* deletions.
Numbering ==
    \/ Creations
    \/ \E p \in Procs : Write(p)
    \/ \E p \in Procs, pk \in Ids : destroy(p, pk)

\* A worker inside generate_quotation_number keeps running: its SELECT ...
\* FOR UPDATE is granted once the row is free, and its loop goes on.
Fairness == \A p \in Procs : WF_vars(GenRead(p)) /\ WF_vars(GenCheck(p))

\* Creations and deletions from an empty table, by workers that keep running.
SpecNumbering == Init /\ [][Numbering]_vars /\ Fairness

------------------------------------------------------------------------------
\* The calculation methods (models.py:169-186, serializers.py:141-166).
\* Decimal arithmetic is exact on the values used here (28 significant
\* digits), so an amount is kept as an integer count of a fixed fraction:
\* item_total and get_total_discount in hundredths, get_total_vat and
\* get_grand_total in 10^-4, grand_total in 10^-6.

\* The items of a priced quotation (a bound of the model).
MaxItems == 2

\* The sequences over S of length at most n.
SeqsUpTo(S, n) == UNION { [1..k -> S] : k \in 0..n }

\* Items that pass clean_items: every qty, rate and discount_value >= 0,
\* the discount below, at and above the base; and the item of the
\* specification's example (qty 10, rate 100.00, 20 percent).
PricedItems ==
    { MkItem(1, "Pipe", qty, rate, dtype, dvalue) :
        qty \in {0, 2}, rate \in {100},
        dtype \in {"percent", "amount"}, dvalue \in {0, 20, 100, 150} }
    \cup { MkItem(1, "Pipe", 10, 100, "percent", 20) }

\* models.py:30-37: subtotal_discount >= 0 and 0 <= vat <= 99 (default 13).
PricedQuotations ==
    { [items |-> items, subtotal_discount |-> sd, vat |-> vat] :
        items \in SeqsUpTo(PricedItems, MaxItems), sd \in {0, 50, 150}, vat \in {0, 13} }

Max(a, b) == IF a >= b THEN a ELSE b

Min(a, b) == IF a <= b THEN a ELSE b

\* Python's sum() over a list.
RECURSIVE Sum(_)
Sum(s) == IF s = <<>> THEN 0 ELSE Head(s) + Sum(Tail(s))

\* models.py:169-179, in hundredths.
item_total(item) ==
    LET base == item.qty * item.rate
    IN  IF item.discount_type = "percent"
          THEN base * (100 - item.discount_value)
          ELSE Max(base - item.discount_value, 0) * 100

\* models.py:181-186, in 10^-6: the subtotal_discount is taken off as a
\* percentage of the total, then the VAT is added.
grand_total(q) ==
    LET total == Sum([i \in 1..Len(q.items) |-> item_total(q.items[i])])
        after == IF q.subtotal_discount > 0
                   THEN total * 100 - total * q.subtotal_discount
                   ELSE total * 100
        vat_amount == after * q.vat
    IN  after * 100 + vat_amount

\* serializers.py:141-143
get_subtotal(q) == Sum([i \in 1..Len(q.items) |-> q.items[i].rate * q.items[i].qty])

\* serializers.py:148-153: one item's discount, in hundredths.
ItemDiscount(item) ==
    LET base == item.rate * item.qty
        discount == IF item.discount_type = "percent"
                      THEN base * item.discount_value
                      ELSE item.discount_value * 100
    IN  Min(discount, base * 100)

\* serializers.py:145-156, in hundredths.
get_total_discount(q) ==
    Sum([i \in 1..Len(q.items) |-> ItemDiscount(q.items[i])])
        + (IF q.subtotal_discount # 0 THEN q.subtotal_discount * 100 ELSE 0)

\* serializers.py:158-161, in 10^-4.
get_total_vat(q) ==
    LET subtotal_after_discount == get_subtotal(q) * 100 - get_total_discount(q)
    IN  subtotal_after_discount * q.vat

\* serializers.py:163-166, in 10^-4.
get_grand_total(q) ==
    LET subtotal_after_discount == get_subtotal(q) * 100 - get_total_discount(q)
    IN  subtotal_after_discount * 100 + get_total_vat(q)

\* The variables no calculation touches.
tables == <<store, nextId, fy, pc, req, inst, prefix, new_num, locked, last, issued,
            started, qitems, nextItemId>>

\* quotation.item_total(item) on one of the quotation's items.
CallItemTotal ==
    /\ calc.fn = "none"
    /\ \E i \in 1..Len(calc.arg.items) :
          calc' = [fn |-> "item_total", arg |-> calc.arg.items[i],
                   value |-> item_total(calc.arg.items[i])]
    /\ UNCHANGED tables

\* quotation.grand_total()
CallGrandTotal ==
    /\ calc.fn = "none"
    /\ calc' = [calc EXCEPT !.fn = "grand_total", !.value = grand_total(calc.arg)]
    /\ UNCHANGED tables

\* QuotationSerializer(quotation).data: the four SerializerMethodFields
\* (serializers.py:53-56).
Serialize ==
    /\ calc.fn = "none"
    /\ calc' = [calc EXCEPT !.fn = "serialize",
                  !.value = [subtotal |-> get_subtotal(calc.arg),
                             total_discount |-> get_total_discount(calc.arg),
                             total_vat |-> get_total_vat(calc.arg),
                             grand_total |-> get_grand_total(calc.arg)]]
    /\ UNCHANGED tables

\* No table holds a row and no worker is in a request.
Blank ==
    /\ store = <<>>
    /\ nextId = 1
    /\ fy = 1
    /\ pc = [p \in Procs |-> "idle"]
    /\ req = [p \in Procs |-> NoReq]
    /\ inst = [p \in Procs |-> NoInst]
    /\ prefix = [p \in Procs |-> 0]
    /\ new_num = [p \in Procs |-> 0]
    /\ locked = [p \in Procs |-> 0]
    /\ last = NoResponse
    /\ issued = <<>>
    /\ started = 0
    /\ qitems = <<>>
    /\ nextItemId = 1

\* A quotation in memory, its items, discount and VAT rate drawn from the
\* valid values.
InitPricing ==
    /\ Blank
    /\ calc \in { [fn |-> "none", arg |-> q, value |-> 0] : q \in PricedQuotations }

NextPricing == CallItemTotal \/ CallGrandTotal \/ Serialize

\* The calculation methods on every priced quotation.
SpecPricing == InitPricing /\ [][NextPricing]_vars

------------------------------------------------------------------------------
\* The fiscal-year label (models.py:68-83).  A string of digits is the
\* sequence of its digits; the label f"{start_short}/{end_short}" is the
\* pair of the two strings.

\* The dates nep_date.today() returns: Bikram Sambat years around the
\* present one and at the turn of a century, every month.
Years == (2078..2083) \cup {2099, 2100}

Months == 1..12

Dates == { [year |-> y, month |-> m] : y \in Years, m \in Months }

\* str(n) of a non-negative integer.
RECURSIVE Str(_)
Str(n) == IF n < 10 THEN <<n>> ELSE Append(Str(n \div 10), n % 10)

\* s[-k:]
LastChars(s, k) == IF Len(s) <= k THEN s ELSE SubSeq(s, Len(s) - k + 1, Len(s))

\* models.py:68-83 on the date today_np.
get_current_fiscal_year(today_np) ==
    LET year == today_np.year
        month == today_np.month
        start_year == IF month < 4 THEN year - 1 ELSE year
        end_year == IF month < 4 THEN year ELSE year + 1
        start_short == LastChars(Str(start_year), 3)
        end_short == LastChars(Str(end_year), 2)
    IN  <<start_short, end_short>>

\* Quotation.get_current_fiscal_year() on the date drawn.
CallFiscalYear ==
    /\ calc.fn = "none"
    /\ calc' = [calc EXCEPT !.fn = "get_current_fiscal_year",
                            !.value = get_current_fiscal_year(calc.arg)]
    /\ UNCHANGED tables

InitFiscalYear ==
    /\ Blank
    /\ calc \in { [fn |-> "none", arg |-> d, value |-> 0] : d \in Dates }

\* The fiscal-year label of every date.
SpecFiscalYear == InitFiscalYear /\ [][CallFiscalYear]_vars

------------------------------------------------------------------------------
\* The creations that hold a generated number and have not inserted yet.
Received(p) == pc[p] = "write" /\ inst[p].id = 0

\* C1: two creations that run concurrently under the same fiscal-year
\* prefix never receive the same number from generate_quotation_number.
C1_ConcurrentNumbersDiffer ==
    \A p, q \in Procs :
        (p # q /\ Received(p) /\ Received(q) /\ prefix[p] = prefix[q])
            => inst[p].quotation_number # inst[q].quotation_number

\* C2: no two stored quotations have the same quotation_number; a creation
\* whose number another creation already stored is rejected at the insert.
C2_StoredNumbersUnique ==
    \A a, b \in DOMAIN store :
        (a # b /\ store[a].quotation_number # <<>>)
            => store[a].quotation_number # store[b].quotation_number

\* C2 witness: a creation was rejected by the unique index while another
\* quotation holds a number.
C2_Witness ==
    /\ last.op = "create"
    /\ last.exc = "IntegrityError"
    /\ \E a \in DOMAIN store : store[a].quotation_number # <<>>

\* C3: under one prefix the integers given to new quotations are strictly
\* increasing in issue order, deletions included: none is issued twice.
C3_IssuedIncreasing ==
    \A i, j \in 1..Len(issued) :
        (i < j /\ issued[i][1] = issued[j][1])
            => ParseNum(issued[i]) < ParseNum(issued[j])

\* C4: once a quotation is stored with a number, no step changes the number
\* of that row.
C4_NumberImmutable ==
    [][\A id \in DOMAIN store \cap DOMAIN store' :
          store[id].quotation_number # <<>>
              => store'[id].quotation_number = store[id].quotation_number]_vars

\* C4 witness: a save() on a stored, numbered quotation went through and
\* changed its row.
C4_Witness ==
    /\ last.op \in {"approve", "add_item", "remove_item", "update_item", "update"}
    /\ last.code \in {200, 201}
    /\ last.changed
    /\ last.pk \in DOMAIN store
    /\ store[last.pk].quotation_number # <<>>

C6_CloseSucceeds ==
    (last.op = "close" /\ last.was \in {"pending", "approved", "rejected"})
        => (last.code = 200 /\ last.pk \in DOMAIN store
            /\ store[last.pk].status = "closed")

\* The transitions of section 4.7 of the specification.
StatusEdges ==
    { <<"draft", "pending">>, <<"pending", "approved">>, <<"pending", "rejected">> }
    \cup { <<s, "closed">> : s \in STATUS_CHOICES }

\* C7: the stored status of a quotation changes only along the edges
\* draft -> pending, pending -> approved, pending -> rejected and
\* non-closed -> closed.
C7_StatusEdges ==
    [][\A id \in DOMAIN store \cap DOMAIN store' :
          store[id].status # store'[id].status
              => <<store[id].status, store'[id].status>> \in StatusEdges]_vars

\* C8: approve on an approved or closed quotation, and close on a draft,
\* return an error response and leave the table unchanged.
C8_RefusedTransitions ==
    (\/ (last.op = "approve" /\ last.was \in {"approved", "closed"})
     \/ (last.op = "close" /\ last.was = "draft"))
        => (last.code \in ErrorCodes /\ ~last.changed)

\* C8 witness: approve was refused on an approved quotation.
C8_Witness ==
    /\ last.op = "approve"
    /\ last.was = "approved"
    /\ last.code = 400
    /\ last.pk \in DOMAIN store
    /\ store[last.pk].status = "approved"

\* C9: approve and close on a closed quotation both return an error
\* response, never a success.
C9_ClosedRefusesLifecycle ==
    (last.was = "closed" /\ last.op \in {"approve", "close"})
        => last.code \in ErrorCodes

\* C9 witness: close was attempted on a closed quotation and failed, and the
\* quotation is still closed.
C9_Witness ==
    /\ last.op = "close"
    /\ last.was = "closed"
    /\ last.code \in ErrorCodes
    /\ last.pk \in DOMAIN store
    /\ store[last.pk].status = "closed"

\* C10: in every stored quotation the document-level discount and the
\* per-item discounts exclude each other.
C10_DiscountsExclusive ==
    \A id \in DOMAIN store :
        ~(/\ store[id].subtotal_discount > 0
          /\ \E i \in 1..Len(store[id].items) : store[id].items[i].discount_value > 0)

\* C10 witness: an item was added to a stored quotation that carries a
\* document-level discount.
C10_Witness ==
    /\ last.op = "add_item"
    /\ last.code = 201
    /\ last.pk \in DOMAIN store
    /\ store[last.pk].subtotal_discount > 0
    /\ Len(store[last.pk].items) > 1

\* The discount of spec section 4.2, in hundredths: the percentage of the
\* base or the amount, clamped to [0, base].
DiscountAmount(item) ==
    LET base == item.qty * item.rate
        raw == IF item.discount_type = "percent"
                 THEN base * item.discount_value
                 ELSE item.discount_value * 100
    IN  Max(0, Min(raw, base * 100))

\* C11: for an item with qty, rate and discount_value >= 0 of either
\* discount type, however large the discount_value, item_total returns a
\* net amount within [0, qty * rate].
C11_ItemTotalClamped ==
    calc.fn = "item_total"
        => (/\ calc.value >= 0
            /\ calc.value <= calc.arg.qty * calc.arg.rate * 100)

\* The grand total of spec section 4.3, in 10^-6:
\* (subtotal - totalDiscount) * (1 + vatRate / 100), the totalDiscount being
\* the item discounts plus the subtotal_discount as an amount of money.
DocumentGrandTotal(q) ==
    LET subtotal == Sum([i \in 1..Len(q.items) |-> q.items[i].qty * q.items[i].rate])
        totalDiscount == Sum([i \in 1..Len(q.items) |-> DiscountAmount(q.items[i])])
                            + q.subtotal_discount * 100
    IN  (subtotal * 100 - totalDiscount) * (100 + q.vat) * 100

\* The VAT base of spec section 4.3 is not below 0 (nothing to clamp).
VatBasePositive(q) == DocumentGrandTotal(q) >= 0

\* C12: for every valid quotation, Quotation.grand_total and
\* QuotationSerializer.get_grand_total both return
\* (subtotal - totalDiscount) * (1 + vatRate / 100).
C12_GrandTotalFormula ==
    /\ (calc.fn = "grand_total" /\ VatBasePositive(calc.arg))
          => calc.value = DocumentGrandTotal(calc.arg)
    /\ (calc.fn = "serialize" /\ VatBasePositive(calc.arg))
          => calc.value.grand_total * 100 = DocumentGrandTotal(calc.arg)

\* C13: for every item list and every subtotal_discount >= 0, also one
\* larger than the subtotal, the VAT amount and the grand total are never
\* negative.
C13_TotalsNeverNegative ==
    /\ calc.fn = "grand_total" => calc.value >= 0
    /\ calc.fn = "serialize"
          => (calc.value.total_vat >= 0 /\ calc.value.grand_total >= 0)

\* The last two digits of a year.
TwoDigits(n) == << (n \div 10) % 10, n % 10 >>

\* C18: for every date, get_current_fiscal_year returns the label YY/YY:
\* the last two digits of the start year and of the end year, where the
\* start year is the previous year before month 4 and the current year
\* from month 4 on, and the end year is the start year + 1.
C18_FiscalYearLabel ==
    calc.fn = "get_current_fiscal_year"
        => LET start == IF calc.arg.month < 4 THEN calc.arg.year - 1 ELSE calc.arg.year
           IN  calc.value = << TwoDigits(start), TwoDigits(start + 1) >>

\* C19: every call of generate_quotation_number returns, whatever the
\* other workers do: the search loop ends and the wait for the row lock of
\* select_for_update ends.
C19_GenerateReturns ==
    \A p \in Procs : (pc[p] \in {"gen_read", "gen_check"}) ~> (pc[p] = "write")

\* C19 witness: a caller waits for the row lock another caller holds.
C19_Witness ==
    \E p \in Procs :
        /\ pc[p] = "gen_read"
        /\ WithPrefix(prefix[p]) # {}
        /\ LockedByOther(p, LastRow(WithPrefix(prefix[p])))

\* The largest integer suffix stored under the prefix, 0 when none is.
HighestStored(f) ==
    LET S == { ParseNum(store[id].quotation_number) : id \in WithPrefix(f) }
    IN  IF S = {} THEN 0 ELSE CHOOSE m \in S : \A n \in S : n <= m

\* C20: the number generate_quotation_number returns has the suffix
\* 1 + the largest suffix stored under the prefix at that moment (1 when
\* none is stored), also after deletions.
C20_NextIsHighestPlusOne ==
    [][\A p \in Procs :
          (pc[p] = "gen_check" /\ pc'[p] = "write")
              => ParseNum(inst'[p].quotation_number) = HighestStored(prefix[p]) + 1]_vars

\* The item rows of quotation pk, each with its id.
StoredItems(rows, pk) == { <<i, rows[i]>> : i \in ItemsOf(rows, pk) }

\* An incoming item and a stored row agree: the same field values.
Agree(item, row) == \A k \in DOMAIN item \ {"id"} : row[k] = item[k]

\* C14: after an update with an incoming item set the stored items of the
\* quotation correspond exactly to the incoming set: one row per incoming
\* item with its values, and no other row.
C14_ItemsReconciled ==
    (last.op = "update" /\ last.code = 200 /\ last.sent # <<>> /\ last.pk \in DOMAIN store)
        => /\ Cardinality(ItemsOf(qitems, last.pk)) = Len(last.sent)
           /\ \A n \in 1..Len(last.sent) :
                 \E i \in ItemsOf(qitems, last.pk) : Agree(last.sent[n], qitems[i])
           /\ \A i \in ItemsOf(qitems, last.pk) :
                 \E n \in 1..Len(last.sent) : Agree(last.sent[n], qitems[i])

\* C15: applying the incoming item set a second time, right after an update
\* with it, creates no item and deletes none: the stored items stay as the
\* first pass left them.
C15_ReconcileIdempotent ==
    (last.op = "update" /\ last.code = 200 /\ last.sent # <<>> /\ last.pk \in DOMAIN store)
        => LET items_data == [n \in 1..Len(last.sent) |-> to_internal_value(last.sent[n])]
               again == ApplyItems(qitems, nextItemId, last.pk,
                                   ItemsOf(qitems, last.pk), items_data)
           IN  StoredItems(again.rows, last.pk) = StoredItems(qitems, last.pk)

C17_StoredItemsValid ==
    \A id \in DOMAIN store :
        \A i \in 1..Len(store[id].items) :
            LET item == store[id].items[i]
            IN  /\ item.qty >= 0
                /\ item.rate >= 0
                /\ item.discount_value >= 0
                /\ item.discount_type \in {"percent", "amount"}

\* C17 witness: an add_item that would have stored a bad item was rejected,
\* on a quotation that holds an item added before.
C17_Witness ==
    /\ last.bad
    /\ last.op = "add_item"
    /\ last.code = 500
    /\ last.pk \in DOMAIN store
    /\ Len(store[last.pk].items) > 1


------------------------------------------------------------------------------
\* The ids of an item list are pairwise distinct.
DistinctIds(items) ==
    \A i, j \in 1..Len(items) : i # j => items[i].id # items[j].id

\* C21: after any sequence of add_item and remove_item operations on one
\* quotation the ids of its stored items are pairwise distinct, so that
\* remove_item and update_item with an id act on exactly one item.
C21_ItemIdsDistinct ==
    \A pk \in DOMAIN store : DistinctIds(store[pk].items)

\* C22: a successful add_item leaves every item that was stored when it
\* wrote and adds its own, so that of two concurrent add_item requests that
\* both succeed neither overwrites the other's addition.
C22_BothAdditionsStored ==
    [][\A p \in Procs :
          (/\ pc[p] = "write"
           /\ pc'[p] = "idle"
           /\ req[p].op = "add_item"
           /\ req[p].pk \in DOMAIN store
           /\ last'.op = "add_item"
           /\ last'.code = 201)
          => Len(store'[req[p].pk].items) = Len(store[req[p].pk].items) + 1]_vars

====
